---- MODULE Spec2Model ----
(***************************************************************************)
(* The cw-schema-codegen Python playground (playground.py) and the Python  *)
(* enum template (enum.tpl.py).                                            *)
(*                                                                         *)
(* playground.py reads lines from stdin, deserializes line number `index`  *)
(* with SomeEnum (index < 5), UnitStructure (5), TupleStructure (6) or     *)
(* NamedStructure (7 and later), serializes the result again and prints    *)
(* it.  The classes delegate to dataclasses_json (from_json / to_json) and *)
(* to json.dumps; those calls are modelled by what they do on the values   *)
(* the playground hands them (dataclasses_json 0.6.x, CPython json).       *)
(*                                                                         *)
(* A text is a sequence of tokens: the punctuation of JSON, one token per  *)
(* string literal (the literal in its quotes), one per number, "null", and *)
(* the whitespace tokens " " and "\n".  A Python value is a record tagged  *)
(* by k.                                                                   *)
(***************************************************************************)
EXTENDS Integers, Sequences, FiniteSets, TLC

-----------------------------------------------------------------------------
(* Bounds of the model *)

\* number of stdin lines the driver reads before end of input
MaxLines == 9
\* nesting depth of the self-referential sample inputs (Field5 in Field5 ...)
MaxNest == 2

-----------------------------------------------------------------------------
(* Python values *)

None_ == [k |-> "None"]
Str(s) == [k |-> "str", s |-> s]
Num(n) == [k |-> "int", n |-> n]
List(e) == [k |-> "list", e |-> e]
Tuple(e) == [k |-> "tuple", e |-> e]
\* a dict is the sequence of its items in insertion order, keys distinct
Dict(m) == [k |-> "dict", m |-> m]
Item(key, val) == [key |-> key, val |-> val]
\* an instance of a plain (non-dataclass) class, e.g. SomeEnum.VariantIndicator
Inst(cls) == [k |-> "inst", cls |-> cls]

Range(f) == {f[i] : i \in DOMAIN f}

HasKey(m, key) == \E i \in DOMAIN m : m[i].key = key
Get(m, key) == m[CHOOSE i \in DOMAIN m : m[i].key = key].val
\* d[key] = val of a Python dict: an existing key keeps its position
DictSet(m, key, val) ==
    IF HasKey(m, key)
    THEN [i \in DOMAIN m |-> IF m[i].key = key THEN Item(key, val) ELSE m[i]]
    ELSE Append(m, Item(key, val))
Keys(m) == {m[i].key : i \in DOMAIN m}

\* dict literals
O1(key, val) == Dict(<<Item(key, val)>>)
O2(k1, v1, k2, v2) == Dict(<<Item(k1, v1), Item(k2, v2)>>)
O3(k1, v1, k2, v2, k3, v3) == Dict(<<Item(k1, v1), Item(k2, v2), Item(k3, v3)>>)

-----------------------------------------------------------------------------
(* The characters of the string literals used in the inputs *)

Strs == {"Field1", "Field2", "Field3", "Field4", "Field5",
         "A", "B", "a", "b", "c", "d", "x", "10", "a:b", "Tuple"}

Chars(s) ==
    CASE s = "Field1" -> <<"F", "i", "e", "l", "d", "1">>
      [] s = "Field2" -> <<"F", "i", "e", "l", "d", "2">>
      [] s = "Field3" -> <<"F", "i", "e", "l", "d", "3">>
      [] s = "Field4" -> <<"F", "i", "e", "l", "d", "4">>
      [] s = "Field5" -> <<"F", "i", "e", "l", "d", "5">>
      [] s = "Tuple" -> <<"T", "u", "p", "l", "e">>
      [] s = "10" -> <<"1", "0">>
      [] s = "a:b" -> <<"a", ":", "b">>
      [] OTHER -> <<s>>

Nums == {10, 12}

Quote(s) == "\"" \o s \o "\""
StrToks == {Quote(s) : s \in Strs}
NumToks == {ToString(n) : n \in Nums}
Unquote(t) == CHOOSE s \in Strs : Quote(s) = t
NumOf(t) == CHOOSE n \in Nums : ToString(n) = t
Whitespace == {" ", "\n"}

-----------------------------------------------------------------------------
(* json.dumps *)

RECURSIVE JsonSerializable(_)
JsonSerializable(v) ==
    CASE v.k \in {"None", "str", "int"} -> TRUE
      [] v.k \in {"list", "tuple"} -> \A i \in DOMAIN v.e : JsonSerializable(v.e[i])
      [] v.k = "dict" -> \A i \in DOMAIN v.m : JsonSerializable(v.m[i].val)
      [] OTHER -> FALSE

RECURSIVE Dumps(_)
DumpsElems(e) ==
    LET F[i \in 0..Len(e)] ==
            IF i = 0 THEN <<>>
            ELSE F[i - 1] \o (IF i = 1 THEN <<>> ELSE <<",", " ">>) \o Dumps(e[i])
    IN F[Len(e)]
DumpsItems(m) ==
    LET F[i \in 0..Len(m)] ==
            IF i = 0 THEN <<>>
            ELSE F[i - 1] \o (IF i = 1 THEN <<>> ELSE <<",", " ">>)
                 \o <<Quote(m[i].key), ":", " ">> \o Dumps(m[i].val)
    IN F[Len(m)]
Dumps(v) ==
    CASE v.k = "None" -> <<"null">>
      [] v.k = "str" -> <<Quote(v.s)>>
      [] v.k = "int" -> <<ToString(v.n)>>
      [] v.k \in {"list", "tuple"} -> <<"[">> \o DumpsElems(v.e) \o <<"]">>
      [] v.k = "dict" -> <<"{">> \o DumpsItems(v.m) \o <<"}">>

-----------------------------------------------------------------------------
(* json.loads *)

Lex(text) == SelectSeq(text, LAMBDA t : t \notin Whitespace)

ParseFail == [ok |-> FALSE, v |-> None_, i |-> 0]
Parsed(v, i) == [ok |-> TRUE, v |-> v, i |-> i]

RECURSIVE ParseValue(_, _)
RECURSIVE ParseElems(_, _, _)
RECURSIVE ParseMembers(_, _, _)
ParseValue(t, i) ==
    IF i > Len(t) THEN ParseFail
    ELSE CASE t[i] = "null" -> Parsed(None_, i + 1)
           [] t[i] \in StrToks -> Parsed(Str(Unquote(t[i])), i + 1)
           [] t[i] \in NumToks -> Parsed(Num(NumOf(t[i])), i + 1)
           [] t[i] = "[" ->
                IF i + 1 <= Len(t) /\ t[i + 1] = "]"
                THEN Parsed(List(<<>>), i + 2)
                ELSE ParseElems(t, i + 1, <<>>)
           [] t[i] = "{" ->
                IF i + 1 <= Len(t) /\ t[i + 1] = "}"
                THEN Parsed(Dict(<<>>), i + 2)
                ELSE ParseMembers(t, i + 1, <<>>)
           [] OTHER -> ParseFail
ParseElems(t, i, acc) ==
    LET r == ParseValue(t, i) IN
    IF ~r.ok \/ r.i > Len(t) THEN ParseFail
    ELSE CASE t[r.i] = "," -> ParseElems(t, r.i + 1, Append(acc, r.v))
           [] t[r.i] = "]" -> Parsed(List(Append(acc, r.v)), r.i + 1)
           [] OTHER -> ParseFail
ParseMembers(t, i, acc) ==
    IF i + 1 > Len(t) \/ t[i] \notin StrToks \/ t[i + 1] # ":" THEN ParseFail
    ELSE LET r == ParseValue(t, i + 2) IN
         IF ~r.ok \/ r.i > Len(t) THEN ParseFail
         ELSE CASE t[r.i] = "," ->
                     ParseMembers(t, r.i + 1, DictSet(acc, Unquote(t[i]), r.v))
                [] t[r.i] = "}" ->
                     Parsed(Dict(DictSet(acc, Unquote(t[i]), r.v)), r.i + 1)
                [] OTHER -> ParseFail

\* [ok, v]: the value of a JSON text, or JSONDecodeError
Loads(text) ==
    LET t == Lex(text)
        r == ParseValue(t, 1)
    IN IF r.ok /\ r.i = Len(t) + 1 THEN [ok |-> TRUE, v |-> r.v]
       ELSE [ok |-> FALSE, v |-> None_]

-----------------------------------------------------------------------------
(* Results of a call: a returned value or a raised exception *)

Return(v) == [ok |-> TRUE, v |-> v, err |-> ""]
Raise(e) == [ok |-> FALSE, v |-> None_, err |-> e]

-----------------------------------------------------------------------------
(* dataclasses_json, as the playground's classes use it *)

\* len(value), where the value has one
HasLen(v) == v.k \in {"list", "tuple", "dict", "str"}
PyLen(v) ==
    CASE v.k \in {"list", "tuple"} -> Len(v.e)
      [] v.k = "dict" -> Len(v.m)
      [] v.k = "str" -> Len(Chars(v.s))
\* the items iterating over a value yields
PyIter(v) ==
    CASE v.k \in {"list", "tuple"} -> v.e
      [] v.k = "dict" -> [i \in DOMAIN v.m |-> Str(v.m[i].key)]
      [] v.k = "str" -> [i \in DOMAIN Chars(v.s) |-> Str(Chars(v.s)[i])]

\* a mutation: the number of items is not compared with the number of types
DecodeTupleAnyLength(arity, value) ==
    IF ~HasLen(value) THEN Raise("TypeError")
    ELSE Return(Tuple(PyIter(value)))

\* decoding the value of a field annotated tuple[T1, ..., Tn]: the number of
\* items must be n, the items themselves are taken as they are
DecodeTuple(arity, value) ==
    IF ~HasLen(value) THEN Raise("TypeError")
    ELSE IF PyLen(value) # arity THEN Raise("TypeError: number of types")
    ELSE Return(Tuple(PyIter(value)))

\* decoding the value of a field annotated str / int: a value of another type
\* is converted by str(value) / int(value)
PyRepr == "<repr>"
DecodeStr(value) ==
    CASE value.k = "str" -> Return(value)
      [] value.k = "int" -> Return(Str(ToString(value.n)))
      [] OTHER -> Return(Str(PyRepr))
DecodeInt(value) ==
    CASE value.k = "int" -> Return(value)
      [] value.k = "str" ->
            IF \E n \in Nums : ToString(n) = value.s
            THEN Return(Num(CHOOSE n \in Nums : ToString(n) = value.s))
            ELSE Raise("ValueError")
      [] OTHER -> Raise("TypeError")

\* kvs[field.name] after the defaults of missing fields are filled in
FieldOrDefault(m, name) == IF HasKey(m, name) THEN Get(m, name) ELSE None_

\* _asdict: dataclass instances become dicts (SomeEnum leaves out the fields
\* that are None, see enum_field), mappings dicts, collections lists
RECURSIVE AsDict(_)
AsDictFields(v, names, exclude) ==
    LET F[i \in 0..Len(names)] ==
            IF i = 0 THEN <<>>
            ELSE IF exclude /\ v[names[i]] = None_ THEN F[i - 1]
            ELSE Append(F[i - 1], Item(names[i], AsDict(v[names[i]])))
    IN Dict(F[Len(names)])
AsDict(v) ==
    CASE v.k = "SomeEnum" ->
            AsDictFields(v, <<"Field1", "Field2", "Field3", "Field4", "Field5">>, TRUE)
      [] v.k = "NamedStructure" -> AsDictFields(v, <<"a", "b", "c">>, FALSE)
      [] v.k = "TupleStructure" -> AsDictFields(v, <<"Tuple">>, FALSE)
      [] v.k = "UnitStructure" -> Dict(<<>>)
      [] v.k = "dict" -> Dict([i \in DOMAIN v.m |-> Item(v.m[i].key, AsDict(v.m[i].val))])
      [] v.k \in {"list", "tuple"} -> List([i \in DOMAIN v.e |-> AsDict(v.e[i])])
      [] OTHER -> v

to_json(self) ==
    IF JsonSerializable(AsDict(self)) THEN Return(Dumps(AsDict(self)))
    ELSE Raise("TypeError")

-----------------------------------------------------------------------------
(* class SomeEnum *)

VariantIndicator == Inst("VariantIndicator")

SomeEnum(f1, f2, f3, f4, f5) ==
    [k |-> "SomeEnum", Field1 |-> f1, Field2 |-> f2, Field3 |-> f3,
     Field4 |-> f4, Field5 |-> f5]

\* SomeEnum.from_json: the keys that are no field are dropped, the fields
\* that are no key are None; Field2 is decoded as tuple[int, int]; the
\* values of Field1, Field3, Field4 and Field5 are taken as they are
SomeEnum_from_json(json) ==
    LET l == Loads(json) IN
    IF ~l.ok THEN Raise("JSONDecodeError")
    ELSE IF l.v.k # "dict" THEN Raise("AttributeError")
    ELSE LET f2 == IF FieldOrDefault(l.v.m, "Field2") = None_ THEN Return(None_)
                   ELSE DecodeTuple(2, FieldOrDefault(l.v.m, "Field2"))
         IN IF ~f2.ok THEN f2
            ELSE Return(SomeEnum(FieldOrDefault(l.v.m, "Field1"), f2.v,
                                 FieldOrDefault(l.v.m, "Field3"),
                                 FieldOrDefault(l.v.m, "Field4"),
                                 FieldOrDefault(l.v.m, "Field5")))

\* ":" in json
ContainsColon(json) ==
    \E i \in DOMAIN json :
        \/ json[i] = ":"
        \/ json[i] \in StrToks /\ ":" \in Range(Chars(Unquote(json[i])))

SomeEnum_deserialize(json) ==
    IF ~ContainsColon(json)
    THEN IF json = <<Quote("Field1")>>
         THEN Return(SomeEnum(VariantIndicator, None_, None_, None_, None_))
         ELSE Raise("Deserialization error, undefined variant")
    ELSE SomeEnum_from_json(json)

SomeEnum_serialize(self) ==
    IF self.Field1 # None_ THEN Return(<<Quote("Field1")>>)
    ELSE to_json(self)

-----------------------------------------------------------------------------
(* class UnitStructure *)

UnitStructure == [k |-> "UnitStructure"]

\* the exception of the else branch is constructed and not raised: the call
\* returns None
UnitStructure_deserialize(json) ==
    IF json = <<"null">> THEN Return(UnitStructure)
    ELSE Return(None_)

UnitStructure_serialize(self) == Return(<<"null">>)

-----------------------------------------------------------------------------
(* class TupleStructure *)

TupleStructure(t) == [k |-> "TupleStructure", Tuple |-> t]

TupleStructure_from_json(json) ==
    LET l == Loads(json) IN
    IF ~l.ok THEN Raise("JSONDecodeError")
    ELSE IF l.v.k # "dict" THEN Raise("AttributeError")
    ELSE IF ~HasKey(l.v.m, "Tuple") THEN Raise("KeyError")
    ELSE IF Get(l.v.m, "Tuple") = None_ THEN Return(TupleStructure(None_))
    ELSE LET t == DecodeTuple(3, Get(l.v.m, "Tuple")) IN
         IF ~t.ok THEN t ELSE Return(TupleStructure(t.v))

TupleStructure_deserialize(json) ==
    TupleStructure_from_json(<<"{", " ", Quote("Tuple"), ":", " ">> \o json \o <<" ", "}">>)

TupleStructure_serialize(self) ==
    IF JsonSerializable(self.Tuple) THEN Return(Dumps(self.Tuple))
    ELSE Raise("TypeError")

-----------------------------------------------------------------------------
(* class NamedStructure *)

NamedStructure(a, b, c) == [k |-> "NamedStructure", a |-> a, b |-> b, c |-> c]

NamedStructure_from_json(json) ==
    LET l == Loads(json) IN
    IF ~l.ok THEN Raise("JSONDecodeError")
    ELSE IF l.v.k # "dict" THEN Raise("AttributeError")
    ELSE IF ~({"a", "b", "c"} \subseteq Keys(l.v.m)) THEN Raise("KeyError")
    ELSE LET a == IF Get(l.v.m, "a") = None_ THEN Return(None_)
                  ELSE DecodeStr(Get(l.v.m, "a"))
             b == IF Get(l.v.m, "b") = None_ THEN Return(None_)
                  ELSE DecodeInt(Get(l.v.m, "b"))
         IN IF ~b.ok THEN b
            ELSE Return(NamedStructure(a.v, b.v, Get(l.v.m, "c")))

NamedStructure_deserialize(json) == NamedStructure_from_json(json)

NamedStructure_serialize(self) == to_json(self)

-----------------------------------------------------------------------------
(* The lines the driver may find on stdin *)

\* self-referential values of SomeEnum, nested through Field4 and Field5
RECURSIVE Nested(_)
Nested(d) ==
    IF d = 0 THEN {Str("Field1"), O1("Field2", List(<<Num(10), Num(12)>>))}
    ELSE Nested(d - 1)
         \cup {O1("Field5", O1("a", e)) : e \in Nested(d - 1)}
         \cup {O1("Field4", List(<<e>>)) : e \in Nested(d - 1)}

Atoms == {None_, Str("Field1"), Str("Field2"), Str("x"), Str("a:b"), Num(10)}

Arrays ==
    {List(<<>>), List(<<Num(10)>>), List(<<Num(10), Num(12)>>),
     List(<<Num(10), Str("x")>>), List(<<Num(10), Str("x"), Num(12)>>),
     List(<<Num(10), Num(10), Num(10)>>),
     List(<<Num(10), Str("x"), Num(12), Num(12)>>)}

Payloads ==
    Atoms \cup Arrays
    \cup {Dict(<<>>), O1("a", Str("10")), O2("a", Str("10"), "b", Num(12)),
          O2("b", Num(12), "a", Str("10")),
          O3("a", Str("10"), "b", Num(12), "d", Num(10)),
          O2("A", Num(10), "B", Num(12))}

VariantPayloads ==
    {None_, Num(10), Str("Field1"), List(<<Num(10)>>), List(<<Num(10), Num(12)>>),
     List(<<Num(10), Str("x"), Num(12)>>), O1("a", Str("10")),
     O2("a", Str("10"), "b", Num(12)), O3("a", Str("10"), "b", Num(12), "d", Num(10))}

VariantObjects ==
    {O1(f, p) : f \in {"Field1", "Field2", "Field3", "Field4", "Field5", "A"},
                p \in VariantPayloads}

ManyKeyObjects ==
    {O2("A", Num(10), "B", Num(12)),
     O2("Field2", List(<<Num(10), Num(12)>>), "Field3", O2("a", Str("10"), "b", Num(12))),
     O2("Field2", List(<<Num(10), Num(12)>>), "A", Num(10)),
     O2("Field1", Num(10), "Field2", List(<<Num(10), Num(12)>>)),
     O2("Field1", None_, "Field2", List(<<Num(10), Num(12)>>)),
     O2("Field4", List(<<Str("Field1")>>), "Field5", O1("a", Str("Field1")))}

NamedObjects ==
    {O3("a", a, "b", b, "c", c) :
        a \in {Str("x"), Num(10), None_},
        b \in {Num(12), Str("10"), Str("x"), List(<<>>)},
        c \in {List(<<>>), List(<<Str("Field1")>>), None_}}
    \cup {O2("a", Str("x"), "b", Num(12)), O2("b", Num(12), "c", List(<<>>)),
          O2("a", Str("x"), "c", List(<<>>)),
          O3("c", List(<<>>), "b", Num(12), "a", Str("x")),
          Dict(<<Item("a", Str("x")), Item("b", Num(12)), Item("c", List(<<>>)),
                 Item("d", Num(10))>>)}

Samples ==
    Atoms \cup Arrays \cup Payloads \cup VariantObjects \cup ManyKeyObjects
    \cup NamedObjects \cup Nested(MaxNest)

\* texts that are no output of json.dumps: no JSON at all, JSON with other
\* whitespace, an object that repeats a key
OtherTexts ==
    {<<>>, <<"{">>, <<"[", "10", ",", "]">>, <<Quote("Field1"), " ">>,
     <<" ", Quote("Field1")>>, <<"{", Quote("Field2"), ":", "[", "10", ",", "12", "]", "}">>,
     <<"{", Quote("A"), ":", "10", ",", Quote("A"), ":", "12", "}">>,
     <<"null", " ">>, <<Quote("Field1"), ":">>}

Texts == {Dumps(v) : v \in Samples} \cup OtherTexts

\* a line of stdin ends with its newline
Stdin == {t \o <<"\n">> : t \in Texts}

RECURSIVE rstrip(_)
rstrip(text) ==
    IF text # <<>> /\ text[Len(text)] \in Whitespace
    THEN rstrip(SubSeq(text, 1, Len(text) - 1))
    ELSE text

-----------------------------------------------------------------------------
(* The enum template: the class it renders for one variant of an enum *)

VariantNames == {"Field1", "Field2", "Field3", "Field4", "Field5"}

Field(name, ty) == [name |-> name, ty |-> ty]

\* TypeTemplate::Unit, TypeTemplate::Tuple(types), TypeTemplate::Named{fields}
Unit(name) == [name |-> name, ty |-> "Unit", types |-> <<>>, fields |-> <<>>]
TupleVariant(name, types) == [name |-> name, ty |-> "Tuple", types |-> types, fields |-> <<>>]
Named(name, fields) == [name |-> name, ty |-> "Named", types |-> <<>>, fields |-> fields]

Variants ==
    {Unit(n) : n \in VariantNames}
    \cup {TupleVariant(n, t) : n \in VariantNames,
                               t \in {<<"int">>, <<"int", "int">>, <<"int", "str", "int">>}}
    \cup {Named(n, f) : n \in VariantNames,
                        f \in {<<Field("a", "str")>>, <<Field("a", "str"), Field("b", "int")>>}}

\* the types of the annotations the template writes
TyNone == [t |-> "None"]
TyTuple(types) == [t |-> "typing.Tuple", args |-> types]
TyName(name) == [t |-> name]

\* a rendered class: its name, its base class and its annotations in order
Class(name, base, annotations) == [name |-> name, base |-> base, annotations |-> annotations]

\* {% match variant.ty %}: the Unit branch writes a RootModel whose root is
\* None, the Tuple branch a BaseModel with one field named as the variant,
\* the Named branch a plain class __Inner that holds the declared fields
\* and, in the same class body, the annotation named as the variant
RenderVariant(v) ==
    CASE v.ty = "Unit" -> Class(v.name, "RootModel", <<Field("root", TyNone)>>)
      [] v.ty = "Tuple" -> Class(v.name, "BaseModel", <<Field(v.name, TyTuple(v.types))>>)
      [] v.ty = "Named" ->
            Class("__Inner", "object",
                  [i \in DOMAIN v.fields |-> Field(v.fields[i].name, TyName(v.fields[i].ty))]
                  \o <<Field(v.name, TyName("__Inner"))>>)

\* pydantic, as the rendered classes use it: an instance of a model class
\* holds the validated values of its annotations
Model(cls, data) == [k |-> "model", cls |-> cls, data |-> data]

\* a value of the type an annotation names
Conforms(value, ty) ==
    CASE ty.t = "None" -> value = None_
      [] ty.t = "int" -> value.k = "int"
      [] ty.t = "str" -> value.k = "str"
      [] ty.t = "typing.Tuple" ->
            /\ value.k \in {"list", "tuple"}
            /\ Len(value.e) = Len(ty.args)
            /\ \A i \in DOMAIN ty.args : value.e[i].k = ty.args[i]
      [] OTHER -> FALSE

\* cls(**data) for a model class; a plain class takes no data
Construct(cls, data) ==
    IF cls.base = "object"
    THEN IF data = <<>> THEN Return(Inst(cls.name)) ELSE Raise("TypeError")
    ELSE IF /\ Keys(data) = {cls.annotations[i].name : i \in DOMAIN cls.annotations}
            /\ \A i \in DOMAIN cls.annotations :
                   Conforms(Get(data, cls.annotations[i].name), cls.annotations[i].ty)
    THEN Return(Model(cls, data))
    ELSE Raise("ValidationError")

\* model_dump_json: a RootModel is its root, a BaseModel the object of its
\* fields; an instance of a plain class has no such method
model_dump_json(self) ==
    IF self.k # "model" THEN Raise("AttributeError")
    ELSE IF self.cls.base = "RootModel" THEN Return(Lex(Dumps(AsDict(Get(self.data, "root")))))
    ELSE Return(Lex(Dumps(AsDict(Dict(self.data)))))

\* model_validate_json
model_validate_json(cls, json) ==
    LET l == Loads(json) IN
    IF cls.base = "object" THEN Raise("AttributeError")
    ELSE IF ~l.ok THEN Raise("ValidationError")
    ELSE IF cls.base = "RootModel" THEN Construct(cls, <<Item("root", l.v)>>)
    ELSE IF l.v.k # "dict" THEN Raise("ValidationError")
    ELSE LET names == {cls.annotations[i].name : i \in DOMAIN cls.annotations}
             known == SelectSeq(l.v.m, LAMBDA item : item.key \in names)
         IN Construct(cls, known)

\* the data an instance of the rendered class is made from
DataOf(v) ==
    CASE v.ty = "Unit" -> {<<Item("root", None_)>>}
      [] v.ty = "Tuple" ->
            {<<Item(v.name, Tuple([i \in DOMAIN v.types |->
                                     IF v.types[i] = "int" THEN Num(n) ELSE Str("x")]))>> :
                n \in Nums}
      [] v.ty = "Named" -> {<<>>}

\* the texts tried on the rendered class: the name of the variant as a JSON
\* string, null, and the object keyed by the name of the variant
TextsOf(v) ==
    {<<Quote(v.name)>>, <<"null">>}
    \cup (IF v.ty = "Tuple" THEN {Lex(Dumps(AsDict(Dict(data)))) : data \in DataOf(v)}
          ELSE IF v.ty = "Named"
          THEN {Lex(Dumps(O1(v.name, Dict([i \in DOMAIN v.fields |->
                    Item(v.fields[i].name,
                         IF v.fields[i].ty = "int" THEN Num(10) ELSE Str("x"))]))))}
          ELSE {})

-----------------------------------------------------------------------------
(* The driver loop *)

VARIABLES
    index,          \* the number of the line being processed
    input,          \* the line, stripped
    deserialized,   \* the result of the last deserialize that returned
    serialized,     \* the result of the last serialize that returned
    stdout,         \* [n: the number of lines printed, last: the last of them]
    pc,             \* "for", "try", "serialize", "print", "done", "raised"
    exc,            \* the exception that ended the run: its message and the
                    \* exception it was raised from while handling (its context)
    variant,        \* the enum variant handed to the enum template
    generated,      \* the class the template rendered for it
    instance,       \* an instance of that class
    encoded,        \* the result of encoding the instance
    decoded,        \* the result of decoding a text with the class
    tpl             \* "schema", "rendered", "constructed", "encoded", "decoded"

driver == <<index, input, deserialized, serialized, stdout, pc, exc>>
codegen == <<variant, generated, instance, encoded, decoded, tpl>>
vars == <<driver, codegen>>

NoException == [msg |-> "", context |-> ""]
Exception(msg, context) == [msg |-> msg, context |-> context]

Init ==
    /\ index = 0
    /\ input = <<>>
    /\ deserialized = None_
    /\ serialized = <<>>
    /\ stdout = [n |-> 0, last |-> <<>>]
    /\ pc = "for"
    /\ exc = NoException
    /\ variant = None_
    /\ generated = None_
    /\ instance = None_
    /\ encoded = Return(<<>>)
    /\ decoded = [json |-> <<>>, r |-> Return(None_)]
    /\ tpl = "off"

\* the class that line number i is deserialized with
Deserialize(i, json) ==
    IF i < 5 THEN SomeEnum_deserialize(json)
    ELSE IF i = 5 THEN UnitStructure_deserialize(json)
    ELSE IF i = 6 THEN TupleStructure_deserialize(json)
    ELSE NamedStructure_deserialize(json)

\* deserialized.serialize(): None has no such attribute
Serialize(v) ==
    CASE v.k = "SomeEnum" -> SomeEnum_serialize(v)
      [] v.k = "UnitStructure" -> UnitStructure_serialize(v)
      [] v.k = "TupleStructure" -> TupleStructure_serialize(v)
      [] v.k = "NamedStructure" -> NamedStructure_serialize(v)
      [] OTHER -> Raise("AttributeError")

\* for (index, input) in enumerate(sys.stdin): input = input.rstrip()
NextLine ==
    /\ pc = "for"
    /\ index < MaxLines
    /\ \E line \in Stdin : input' = rstrip(line)
    /\ pc' = "try"
    /\ UNCHANGED <<index, deserialized, serialized, stdout, exc, codegen>>

\* stdin is exhausted
EndOfInput ==
    /\ pc = "for"
    /\ pc' = "done"
    /\ UNCHANGED <<index, input, deserialized, serialized, stdout, exc, codegen>>

\* try: deserialized = ...deserialize(input)
TryDeserialize ==
    /\ pc = "try"
    /\ Deserialize(index, input).ok
    /\ deserialized' = Deserialize(index, input).v
    /\ pc' = "serialize"
    /\ UNCHANGED <<index, input, serialized, stdout, exc, codegen>>

\* a mutation: the handler swallows the error and the loop goes on with the
\* next line
ExceptContinue ==
    /\ pc = "try"
    /\ ~Deserialize(index, input).ok
    /\ pc' = "for"
    /\ index' = index + 1
    /\ UNCHANGED <<input, deserialized, serialized, stdout, exc, codegen>>

\* except: raise(Exception("This json can't be deserialized: ..."))
ExceptRaise ==
    /\ pc = "try"
    /\ ~Deserialize(index, input).ok
    /\ pc' = "raised"
    /\ exc' = Exception("This json can't be deserialized", Deserialize(index, input).err)
    /\ UNCHANGED <<index, input, deserialized, serialized, stdout, codegen>>

\* serialized = deserialized.serialize()
CallSerialize ==
    /\ pc = "serialize"
    /\ Serialize(deserialized).ok
    /\ serialized' = Serialize(deserialized).v
    /\ pc' = "print"
    /\ UNCHANGED <<index, input, deserialized, stdout, exc, codegen>>

\* deserialized.serialize() raises outside the try block
SerializeRaise ==
    /\ pc = "serialize"
    /\ ~Serialize(deserialized).ok
    /\ pc' = "raised"
    /\ exc' = Exception(Serialize(deserialized).err, "")
    /\ UNCHANGED <<index, input, deserialized, serialized, stdout, codegen>>

\* print(serialized), and on to the next line
PrintLine ==
    /\ pc = "print"
    /\ stdout' = [n |-> stdout.n + 1, last |-> serialized]
    /\ index' = index + 1
    /\ pc' = "for"
    /\ UNCHANGED <<input, deserialized, serialized, exc, codegen>>

Next ==
    \/ NextLine
    \/ EndOfInput
    \/ TryDeserialize
    \/ ExceptRaise
    \/ CallSerialize
    \/ SerializeRaise
    \/ PrintLine

Spec == Init /\ [][Next]_vars

-----------------------------------------------------------------------------
(* Rendering the enum template for one variant and using the rendered class *)

InitTpl ==
    /\ index = 0
    /\ input = <<>>
    /\ deserialized = None_
    /\ serialized = <<>>
    /\ stdout = [n |-> 0, last |-> <<>>]
    /\ pc = "for"
    /\ exc = NoException
    /\ variant \in Variants
    /\ generated = None_
    /\ instance = None_
    /\ encoded = Return(<<>>)
    /\ decoded = [json |-> <<>>, r |-> Return(None_)]
    /\ tpl = "schema"

Render ==
    /\ tpl = "schema"
    /\ generated' = RenderVariant(variant)
    /\ tpl' = "rendered"
    /\ UNCHANGED <<driver, variant, instance, encoded, decoded>>

Instantiate ==
    /\ tpl = "rendered"
    /\ \E data \in DataOf(variant) :
           /\ Construct(generated, data).ok
           /\ instance' = Construct(generated, data).v
    /\ tpl' = "constructed"
    /\ UNCHANGED <<driver, variant, generated, encoded, decoded>>

Encode ==
    /\ tpl = "constructed"
    /\ encoded' = model_dump_json(instance)
    /\ tpl' = "encoded"
    /\ UNCHANGED <<driver, variant, generated, instance, decoded>>

Decode ==
    /\ tpl = "encoded"
    /\ \E json \in TextsOf(variant) \cup (IF encoded.ok THEN {encoded.v} ELSE {}) :
           decoded' = [json |-> json, r |-> model_validate_json(generated, json)]
    /\ tpl' = "decoded"
    /\ UNCHANGED <<driver, variant, generated, instance, encoded>>

NextTpl ==
    \/ Render
    \/ Instantiate
    \/ Encode
    \/ Decode

SpecTpl == InitTpl /\ [][NextTpl]_vars

-----------------------------------------------------------------------------
(* Properties of the driver (Spec) *)

\* C1: every line the driver accepts is printed back as a text that denotes
\* the same JSON value as the line
C1_RoundTrip ==
    pc = "print" =>
        /\ Loads(input).ok
        /\ Loads(serialized).ok
        /\ Loads(serialized).v = Loads(input).v

\* C4: SomeEnum.deserialize returns no value for a JSON object that does not
\* have exactly one key
C4_OneKeyOrRejected ==
    (index < 5 /\ pc = "serialize" /\ Loads(input).ok /\ Loads(input).v.k = "dict")
        => Len(Loads(input).v.m) = 1

\* C5: SomeEnum.deserialize of a JSON string other than "Field1" returns no
\* value and fails with the undefined-variant error of the string branch
C5_StringIsUnknownVariant ==
    (index < 5 /\ pc \in {"serialize", "raised"} /\ Loads(input).ok
     /\ Loads(input).v.k = "str" /\ Loads(input).v.s # "Field1")
        => /\ pc = "raised"
           /\ exc.context = "Deserialization error, undefined variant"

\* C6 as stated: a line that cannot be deserialized never ends the run
C6_DecodeErrorNeverAborts ==
    ~(pc = "raised" /\ exc.msg = "This json can't be deserialized")

\* C6 as amended: a line that cannot be deserialized ends the run; the
\* lines before it have been printed, and no later line is deserialized or
\* printed
C6_DecodeErrorEndsRun ==
    /\ [](pc = "raised" => stdout.n = index)
    /\ [][/\ (pc = "try" /\ ~Deserialize(index, input).ok)
                => (pc' = "raised" /\ stdout' = stdout /\ index' = index)
          /\ pc = "raised"
                => (pc' = "raised" /\ stdout' = stdout /\ index' = index
                    /\ deserialized' = deserialized)]_vars

C6_Witness ==
    /\ pc = "raised"
    /\ exc.msg = "This json can't be deserialized"
    /\ index = 2
    /\ stdout.n = 2

\* C7: TupleStructure.deserialize of a JSON array returns the tuple of its
\* three elements, which serializes to the same array, and fails with the
\* arity error for an array of any other length
C7_TupleStructureArity ==
    (index = 6 /\ pc \in {"serialize", "print", "raised"} /\ Loads(input).ok
     /\ Loads(input).v.k = "list")
        => IF Len(Loads(input).v.e) = 3
           THEN /\ pc # "raised"
                /\ deserialized = TupleStructure(Tuple(Loads(input).v.e))
                /\ pc = "print" => /\ Loads(serialized).ok
                                   /\ Loads(serialized).v = Loads(input).v
           ELSE /\ pc = "raised"
                /\ exc.context = "TypeError: number of types"

C7_Witness ==
    /\ index = 6
    /\ pc = "raised"
    /\ input = Dumps(List(<<Num(10), Str("x")>>))

\* C8: a JSON object is decoded as a NamedStructure only when its keys are
\* a, b and c, and as the payload of Field3 only when its keys are a and b
C8_StrictFields ==
    /\ (index >= 7 /\ pc = "serialize" /\ Loads(input).ok /\ Loads(input).v.k = "dict")
            => Keys(Loads(input).v.m) = {"a", "b", "c"}
    /\ (index < 5 /\ pc = "serialize" /\ deserialized.k = "SomeEnum"
        /\ deserialized.Field3.k = "dict")
            => Keys(deserialized.Field3.m) = {"a", "b"}

\* C10: UnitStructure.deserialize returns a UnitStructure or fails, so the
\* driver calls serialize on a UnitStructure
C10_UnitStructureOrError ==
    (index = 5 /\ pc = "serialize") => deserialized = UnitStructure

-----------------------------------------------------------------------------
(* Properties of the rendered classes (SpecTpl) *)

\* C2: the class rendered for a Unit variant encodes as the name of the
\* variant in double quotes, and decodes that text
C2_UnitIsBareString ==
    /\ (variant.ty = "Unit" /\ tpl \in {"encoded", "decoded"})
            => encoded = Return(<<Quote(variant.name)>>)
    /\ (variant.ty = "Unit" /\ tpl = "decoded" /\ decoded.json = <<Quote(variant.name)>>)
            => decoded.r.ok

\* C3: the class rendered for a Tuple or Named variant encodes as a JSON
\* object whose only key is the name of the variant
C3_OneKeyObject ==
    (variant.ty \in {"Tuple", "Named"} /\ tpl \in {"encoded", "decoded"})
        => /\ encoded.ok
           /\ Loads(encoded.v).ok
           /\ Loads(encoded.v).v.k = "dict"
           /\ Keys(Loads(encoded.v).v.m) = {variant.name}

====
